---- MODULE Spec2Model ----
(***************************************************************************)
(* Model of the VeSync integration's device classifier                     *)
(* (custom_components/vesync/common.py, async_process_devices) and of the  *)
(* identity of the entity adapters (common.py VeSyncBaseEntity, switch.py).*)
(*                                                                         *)
(* Spec        classification passes over sessions whose devices are drawn *)
(*             from the bounded device kinds.                              *)
(* SpecEntity  construction of entity adapters over devices whose cid and  *)
(*             sub_device_no are drawn from bounded sets.                  *)
(***************************************************************************)
EXTENDS Integers, Sequences, FiniteSets, TLC

VARIABLES
    manager,    \* the vendor session: manager.devices, the list of device objects
    devices,    \* the mapping returned by the last async_process_devices
    pc,         \* "setup" before the first classification pass, then "classified"
    entities,   \* the entity adapters constructed so far, in construction order
    state,      \* device.state of each device object: attribute name -> value
    coordinator,\* the shared update coordinator of the account
    commands,   \* the vendor commands issued by the adapter operation under way
    outcome,    \* the last operation made and how it ended
    history     \* the classification passes made: manager seen, mapping returned

vars == <<manager, devices, pc, entities, state, coordinator, commands, outcome,
          history>>

(***************************************************************************)
(* Bounds                                                                  *)
(***************************************************************************)
MaxDev == 3             \* devices in the vendor session
MaxSubDeviceNo == 1     \* sub-device indices 0..MaxSubDeviceNo
MaxEntities == 2        \* adapters constructed in one behaviour
MaxSetupDevs == 2       \* devices handed to one switch-platform setup
MaxPollDevs == 2        \* devices of the session the coordinator polls
MaxPasses == 2          \* classification passes made over one session

(***************************************************************************)
(* Platform keys (const.py)                                                *)
(***************************************************************************)
VS_SWITCHES == "switches"
VS_FANS == "fans"
VS_LIGHTS == "lights"
VS_SENSORS == "sensors"
VS_HUMIDIFIERS == "humidifiers"
VS_NUMBERS == "numbers"
VS_BINARY_SENSORS == "binary_sensors"
VS_BUTTON == "buttons"

\* the integration's domain
DOMAIN_VESYNC == "vesync"

Platforms ==
    {VS_SWITCHES, VS_FANS, VS_LIGHTS, VS_SENSORS, VS_HUMIDIFIERS, VS_NUMBERS,
     VS_BINARY_SENSORS, VS_BUTTON}

(***************************************************************************)
(* Python values                                                           *)
(***************************************************************************)
None == [type |-> "NoneType"]
PyInt(n) == [type |-> "int", value |-> n]
PyStr(x) == [type |-> "str", value |-> x]
isinstance_int(v) == v.type = "int"

Digit == <<"0", "1", "2", "3", "4", "5", "6", "7", "8", "9">>

\* str(n) for a Python int: decimal digits, most significant first
RECURSIVE str(_)
str(n) ==
    IF n < 0 THEN "-" \o str(0 - n)
    ELSE IF n < 10 THEN Digit[n + 1]
    ELSE str(n \div 10) \o Digit[(n % 10) + 1]

(***************************************************************************)
(* Vendor devices.  A device object is a record of the attributes the      *)
(* integration reads; the vendor identifies it by cid and sub_device_no.   *)
(***************************************************************************)
\* the module names the vendor library reports for a model
RecognisedFanModules == {"VeSyncAirBypass", "VeSyncHumid200300S"}
RecognisedKitchenModules == {"VeSyncAirFryer158"}

CIDs == {"cid", "cid1", "cid2"}
SubDeviceNos == {None} \cup {PyInt(n) : n \in 0..MaxSubDeviceNo}

\* the capability methods a device object can carry (switch.py _setup_entities)
CapabilityMethods ==
    {"set_auto_mode", "turn_on_automatic_stop", "turn_on_display",
     "turn_on_child_lock"}

Kind(pt, dim, mod, dtype, name, methods) ==
    [product_type |-> pt, supports_dimmable |-> dim, module |-> mod,
     device_type |-> dtype, device_name |-> name, methods |-> methods]

\* what the classifier tells devices apart by: category, dimming, module
DeviceKinds ==
    {Kind("fan", FALSE, m, "LAP-C201S-AUSR", "TestFan",
          {"set_auto_mode", "turn_on_child_lock", "turn_on_display"}) :
        m \in {"VeSyncAirBypass", "UnknownModule"}}
    \cup {Kind("air_purifier", FALSE, "VeSyncAirBypass", "LV-PUR131S", "TestPurifier",
               {"set_auto_mode", "turn_on_child_lock", "turn_on_display"})}
    \cup {Kind("humidifier", FALSE, "VeSyncHumid200300S", "LUH-D301S-WEU",
               "TestHumidifier", CapabilityMethods)}
    \cup {Kind("bulb", TRUE, "VeSyncBulbESL100", "ESL100", "TestBulb", {})}
    \cup {Kind("outlet", FALSE, "VeSyncOutlet15A", "ESW15-USA", "TestOutlet", {})}
    \cup {Kind("switch", FALSE, "VeSyncWallSwitch", "ESWL01", "TestWallSwitch", {}),
          Kind("switch", TRUE, "VeSyncDimmerSwitch", "ESWD16", "TestDimmer", {})}
    \cup {Kind("air_fryer", FALSE, m, "CS158", "TestAirFryer", {}) :
            m \in {"VeSyncAirFryer158", "UnknownKitchenModule"}}

\* the firmware a device reports, one version per physical device
FirmVersion(cid) == IF cid = "cid1" THEN "1.0.1" ELSE "1.0.0"

Device(kind, cid, sub) ==
    [product_type |-> kind.product_type,
     supports_dimmable |-> kind.supports_dimmable,
     module |-> kind.module,
     device_type |-> kind.device_type,
     device_name |-> kind.device_name,
     methods |-> kind.methods,
     current_firm_version |-> FirmVersion(cid),
     cid |-> cid, sub_device_no |-> sub]

\* a session of n devices of the given kinds, the i-th with a cid of its own
Session(kinds) ==
    [devices |-> [i \in DOMAIN kinds |-> Device(kinds[i], "cid-" \o str(i), None)]]

\* the devices an adapter is constructed over
EntityDevices ==
    {Device(CHOOSE k \in DeviceKinds : k.product_type = "humidifier", cid, sub) :
        cid \in CIDs, sub \in SubDeviceNos}

\* manager.devices.<category>: the session's devices of one product type
OfType(mgr, pt) ==
    LET is_type(d) == d.product_type = pt IN SelectSeq(mgr.devices, is_type)

fans(mgr) == OfType(mgr, "fan")
air_purifiers(mgr) == OfType(mgr, "air_purifier")
humidifiers(mgr) == OfType(mgr, "humidifier")
bulbs(mgr) == OfType(mgr, "bulb")
outlets(mgr) == OfType(mgr, "outlet")
switches(mgr) == OfType(mgr, "switch")
air_fryers(mgr) == OfType(mgr, "air_fryer")

(***************************************************************************)
(* common.py: has_feature                                                  *)
(***************************************************************************)
\* getattr(obj, name, default)
getattr(obj, name, default) == IF name \in DOMAIN obj THEN obj[name] ELSE default

\* bool(v) for the values a state attribute takes
Truthy(v) == v # None /\ v # PyInt(0) /\ v # PyStr("")

\* presence taken for truth: a zero or an empty string counts as absent
has_feature_Truthy(device, attribute) ==
    LET st == getattr(device, "state", None)
    IN  IF st = None THEN FALSE
        ELSE Truthy(getattr(st, attribute, None))

has_feature(device, attribute) ==
    LET st == getattr(device, "state", None)
    IN  IF st = None THEN FALSE
        ELSE getattr(st, attribute, None) # None

\* the attribute names asked for, and the values a state may hold for them
FeatureAttributes == {"humidity", "mist_level", "mode"}
FeatureValues == {None, PyInt(0), PyInt(55), PyStr("")}

\* the state containers: any subset of the attributes, each with any value
FeatureStates ==
    UNION {[as -> FeatureValues] : as \in SUBSET FeatureAttributes}

\* the device objects has_feature is asked about: without a state attribute,
\* with state None, and with each of the containers
FeatureDevices ==
    {[cid |-> "cid"], [cid |-> "cid", state |-> None]}
    \cup {[cid |-> "cid", state |-> st] : st \in FeatureStates}

\* a caller asks whether the device has the feature
call_has_feature(device, attribute) ==
    /\ pc = "helpers"
    /\ outcome' = [op |-> "has_feature", device |-> device, attribute |-> attribute,
                   result |-> has_feature(device, attribute)]
    /\ UNCHANGED <<manager, devices, pc, entities, state, coordinator, commands,
                   history>>

(***************************************************************************)
(* common.py: async_process_devices                                        *)
(***************************************************************************)
\* the pass left by an exception: devices[k] for a key the dict does not hold
KeyError == [raised |-> "KeyError"]

IsRaised(devs) == "raised" \in DOMAIN devs

\* devices[k].append(d) for every key k of keys
AppendTo(devs, keys, d) ==
    IF IsRaised(devs) THEN devs
    ELSE IF ~(keys \subseteq DOMAIN devs) THEN KeyError
    ELSE [k \in DOMAIN devs |-> IF k \in keys THEN Append(devs[k], d) ELSE devs[k]]

\* devices[k].extend(ds) for every key k of keys
ExtendWith(devs, keys, ds) ==
    IF IsRaised(devs) THEN devs
    ELSE IF ~(keys \subseteq DOMAIN devs) THEN KeyError
    ELSE [k \in DOMAIN devs |-> IF k \in keys THEN devs[k] \o ds ELSE devs[k]]

\* for d in ds: append d to each of keys
RECURSIVE ForEachAppend(_, _, _)
ForEachAppend(devs, ds, keys) ==
    IF ds = <<>> THEN devs
    ELSE ForEachAppend(AppendTo(devs, keys, Head(ds)), Tail(ds), keys)

\* the loop without its else: every wall switch is a switch, a dimmer a light too
RECURSIVE ForEachSwitch_NoElse(_, _)
ForEachSwitch_NoElse(devs, ds) ==
    IF ds = <<>> THEN devs
    ELSE ForEachSwitch_NoElse(
            IF Head(ds).supports_dimmable
            THEN AppendTo(devs, {VS_SWITCHES, VS_LIGHTS}, Head(ds))
            ELSE AppendTo(devs, {VS_SWITCHES}, Head(ds)),
            Tail(ds))

\* the test the wrong way round: dimmers to the switches, the others to the lights
RECURSIVE ForEachSwitch_Inverted(_, _)
ForEachSwitch_Inverted(devs, ds) ==
    IF ds = <<>> THEN devs
    ELSE ForEachSwitch_Inverted(
            IF Head(ds).supports_dimmable
            THEN AppendTo(devs, {VS_SWITCHES}, Head(ds))
            ELSE AppendTo(devs, {VS_LIGHTS}, Head(ds)),
            Tail(ds))

\* for switch in manager.devices.switches: switches or lights by supports_dimmable
RECURSIVE ForEachSwitch(_, _)
ForEachSwitch(devs, ds) ==
    IF ds = <<>> THEN devs
    ELSE ForEachSwitch(
            IF ~Head(ds).supports_dimmable
            THEN AppendTo(devs, {VS_SWITCHES}, Head(ds))
            ELSE AppendTo(devs, {VS_LIGHTS}, Head(ds)),
            Tail(ds))

\* the routing table without the key of the platform added last
EmptyDevices_NoButton == [k \in Platforms \ {VS_BUTTON} |-> <<>>]

\* the routing table kept from the pass before and filled further
EmptyDevices_Persistent ==
    IF pc = "classified" THEN devices ELSE [k \in Platforms |-> <<>>]

EmptyDevices == [k \in Platforms |-> <<>>]

\* a platform key the routing table does not hold
FanPlatforms_Misspelt ==
    {VS_FANS, "number", VS_SWITCHES, VS_SENSORS, VS_BINARY_SENSORS, VS_LIGHTS}

FanPlatforms ==
    {VS_FANS, VS_NUMBERS, VS_SWITCHES, VS_SENSORS, VS_BINARY_SENSORS, VS_LIGHTS}
HumidifierPlatforms ==
    {VS_HUMIDIFIERS, VS_NUMBERS, VS_SWITCHES, VS_SENSORS, VS_BINARY_SENSORS,
     VS_LIGHTS}
AirFryerPlatforms == {VS_SENSORS, VS_BINARY_SENSORS, VS_SWITCHES, VS_BUTTON}

ProcessFans(devs, mgr) == ForEachAppend(devs, fans(mgr), FanPlatforms)

\* air purifiers without the night-light platform
ProcessAirPurifiers_NoLights(devs, mgr) ==
    ForEachAppend(devs, air_purifiers(mgr), FanPlatforms \ {VS_LIGHTS})

ProcessAirPurifiers(devs, mgr) == ForEachAppend(devs, air_purifiers(mgr), FanPlatforms)

\* humidifiers handled as the fans they once were listed with
ProcessHumidifiers_AsFans(devs, mgr) ==
    ForEachAppend(devs, humidifiers(mgr), HumidifierPlatforms \cup {VS_FANS})

ProcessHumidifiers(devs, mgr) ==
    ForEachAppend(devs, humidifiers(mgr), HumidifierPlatforms)

\* bulbs added to the switches as well
ProcessBulbs_AlsoSwitches(devs, mgr) ==
    IF bulbs(mgr) # <<>>
    THEN ExtendWith(devs, {VS_LIGHTS, VS_SWITCHES}, bulbs(mgr))
    ELSE devs

\* the bulbs added to the lights a second time
ProcessBulbs_Twice(devs, mgr) ==
    IF bulbs(mgr) # <<>>
    THEN ExtendWith(ExtendWith(devs, {VS_LIGHTS}, bulbs(mgr)), {VS_LIGHTS}, bulbs(mgr))
    ELSE devs

ProcessBulbs(devs, mgr) ==
    IF bulbs(mgr) # <<>> THEN ExtendWith(devs, {VS_LIGHTS}, bulbs(mgr)) ELSE devs

\* outlets without their power and energy sensors
ProcessOutlets_NoSensors(devs, mgr) ==
    IF outlets(mgr) # <<>>
    THEN ExtendWith(devs, {VS_SWITCHES}, outlets(mgr))
    ELSE devs

ProcessOutlets(devs, mgr) ==
    IF outlets(mgr) # <<>>
    THEN ExtendWith(ExtendWith(devs, {VS_SWITCHES}, outlets(mgr)),
                    {VS_SENSORS}, outlets(mgr))
    ELSE devs
ProcessSwitches(devs, mgr) == ForEachSwitch(devs, switches(mgr))

\* air fryers without the stop button
ProcessAirFryers_NoButton(devs, mgr) ==
    ForEachAppend(devs, air_fryers(mgr), AirFryerPlatforms \ {VS_BUTTON})

ProcessAirFryers(devs, mgr) == ForEachAppend(devs, air_fryers(mgr), AirFryerPlatforms)

\* the mapping async_process_devices returns for a manager
ProcessDevices(mgr) ==
    ProcessAirFryers(
      ProcessSwitches(
        ProcessOutlets(
          ProcessBulbs(
            ProcessHumidifiers(
              ProcessAirPurifiers(
                ProcessFans(EmptyDevices, mgr), mgr), mgr), mgr), mgr), mgr), mgr)

\* the device objects of the session
SessionDevices == {manager.devices[i] : i \in DOMAIN manager.devices}

\* d in result[k]
InList(ds, d) == \E i \in DOMAIN ds : ds[i] = d

\* the platform lists of the returned mapping that hold device d
PlatformsOf(d) == {k \in DOMAIN devices : InList(devices[k], d)}

\* one classification pass over the manager
async_process_devices ==
    /\ pc \in {"setup", "classified"}
    /\ Len(history) < MaxPasses
    /\ UNCHANGED <<manager, entities, state, coordinator, commands, outcome>>
    /\ LET result == ProcessDevices(manager)
       IN  /\ IF IsRaised(result)
              THEN pc' = "raised" /\ UNCHANGED devices
              ELSE pc' = "classified" /\ devices' = result
           /\ history' = Append(history, [before |-> manager, after |-> manager',
                                          result |-> result])

(***************************************************************************)
(* common.py: VeSyncBaseEntity; switch.py: the switch adapters             *)
(***************************************************************************)
EntityClasses ==
    {"VeSyncBaseEntity", "VeSyncSwitchHA", "VeSyncLightSwitch",
     "VeSyncFanChildLockHA", "VeSyncHumidifierDisplayHA",
     "VeSyncHumidifierAutomaticStopHA", "VeSyncHumidifierAutoOnHA"}

\* __init__: the adapter keeps a reference to the device it wraps
VeSyncBaseEntity_init(cls, dev) == [cls |-> cls, device |-> dev]

\* the sub-device index tested for truth instead of for its type
base_unique_id_Truthy(self) ==
    IF isinstance_int(self.device.sub_device_no)
       /\ self.device.sub_device_no.value # 0
    THEN self.device.cid \o str(self.device.sub_device_no.value)
    ELSE self.device.cid

\* the cid alone, whatever the sub-device index
base_unique_id_CidOnly(self) == self.device.cid

base_unique_id(self) ==
    IF isinstance_int(self.device.sub_device_no)
    THEN self.device.cid \o str(self.device.sub_device_no.value)
    ELSE self.device.cid

VeSyncBaseEntity_unique_id(self) == base_unique_id(self)

VeSyncFanChildLockHA_unique_id(self) ==
    VeSyncBaseEntity_unique_id(self) \o "-child-lock"

\* the display switch with the suffix of the class it was copied from
VeSyncHumidifierDisplayHA_unique_id_Copied(self) ==
    VeSyncBaseEntity_unique_id(self) \o "-child-lock"

VeSyncHumidifierDisplayHA_unique_id(self) ==
    VeSyncBaseEntity_unique_id(self) \o "-display"

VeSyncHumidifierAutomaticStopHA_unique_id(self) ==
    VeSyncBaseEntity_unique_id(self) \o "-automatic-stop"

\* the auto-mode switch with the suffix of the class it was copied from
VeSyncHumidifierAutoOnHA_unique_id_Copied(self) ==
    VeSyncBaseEntity_unique_id(self) \o "-automatic-stop"

VeSyncHumidifierAutoOnHA_unique_id(self) ==
    VeSyncBaseEntity_unique_id(self) \o "-auto-mode"

\* self.unique_id, resolved by the class of the adapter
unique_id(self) ==
    CASE self.cls = "VeSyncFanChildLockHA" -> VeSyncFanChildLockHA_unique_id(self)
      [] self.cls = "VeSyncHumidifierDisplayHA" ->
            VeSyncHumidifierDisplayHA_unique_id(self)
      [] self.cls = "VeSyncHumidifierAutomaticStopHA" ->
            VeSyncHumidifierAutomaticStopHA_unique_id(self)
      [] self.cls = "VeSyncHumidifierAutoOnHA" ->
            VeSyncHumidifierAutoOnHA_unique_id(self)
      [] OTHER -> VeSyncBaseEntity_unique_id(self)

VeSyncBaseEntity_base_name(self) == self.device.device_name

VeSyncBaseEntity_name(self) == VeSyncBaseEntity_base_name(self)

\* the grouping identifier taken from the adapter's own unique_id
device_info_OwnId(self) ==
    [identifiers |-> {<<DOMAIN_VESYNC, unique_id(self)>>},
     name |-> VeSyncBaseEntity_base_name(self),
     model |-> self.device.device_type,
     manufacturer |-> "VeSync",
     sw_version |-> self.device.current_firm_version]

device_info(self) ==
    [identifiers |-> {<<DOMAIN_VESYNC, base_unique_id(self)>>},
     name |-> VeSyncBaseEntity_base_name(self),
     model |-> self.device.device_type,
     manufacturer |-> "VeSync",
     sw_version |-> self.device.current_firm_version]

\* an adapter of class cls is constructed over device dev
Construct(cls, dev) ==
    /\ Len(entities) < MaxEntities
    /\ entities' = Append(entities, VeSyncBaseEntity_init(cls, dev))
    /\ UNCHANGED <<manager, devices, pc, state, coordinator, commands, outcome,
                   history>>

(***************************************************************************)
(* switch.py: async_setup_entry and _setup_entities                        *)
(***************************************************************************)
\* const.py: the platform kind of a device type
DEV_TYPE_TO_HA ==
    [t \in {"ESW15-USA", "ESWL01"} |-> IF t = "ESW15-USA" THEN "outlet" ELSE "switch"]

\* DEV_TYPE_TO_HA.get(t)
DEV_TYPE_TO_HA_get(t) ==
    IF t \in DOMAIN DEV_TYPE_TO_HA THEN DEV_TYPE_TO_HA[t] ELSE "None"

\* getattr(dev, method, None) is truthy
getattr_method(dev, method) == method \in dev.methods

\* the loop body written as one if/elif chain: at most one adapter a device
EntitiesFor_Elif(dev) ==
    IF DEV_TYPE_TO_HA_get(dev.device_type) = "outlet"
    THEN <<VeSyncBaseEntity_init("VeSyncSwitchHA", dev)>>
    ELSE IF DEV_TYPE_TO_HA_get(dev.device_type) = "switch"
    THEN <<VeSyncBaseEntity_init("VeSyncLightSwitch", dev)>>
    ELSE IF getattr_method(dev, "set_auto_mode")
    THEN <<VeSyncBaseEntity_init("VeSyncHumidifierAutoOnHA", dev)>>
    ELSE IF getattr_method(dev, "turn_on_automatic_stop")
    THEN <<VeSyncBaseEntity_init("VeSyncHumidifierAutomaticStopHA", dev)>>
    ELSE IF getattr_method(dev, "turn_on_display")
    THEN <<VeSyncBaseEntity_init("VeSyncHumidifierDisplayHA", dev)>>
    ELSE IF getattr_method(dev, "turn_on_child_lock")
    THEN <<VeSyncBaseEntity_init("VeSyncFanChildLockHA", dev)>>
    ELSE <<>>

\* the adapters one pass of the loop body appends for dev, in order
EntitiesFor(dev) ==
    (IF DEV_TYPE_TO_HA_get(dev.device_type) = "outlet"
     THEN <<VeSyncBaseEntity_init("VeSyncSwitchHA", dev)>> ELSE <<>>)
    \o (IF DEV_TYPE_TO_HA_get(dev.device_type) = "switch"
        THEN <<VeSyncBaseEntity_init("VeSyncLightSwitch", dev)>> ELSE <<>>)
    \o (IF getattr_method(dev, "set_auto_mode")
        THEN <<VeSyncBaseEntity_init("VeSyncHumidifierAutoOnHA", dev)>> ELSE <<>>)
    \o (IF getattr_method(dev, "turn_on_automatic_stop")
        THEN <<VeSyncBaseEntity_init("VeSyncHumidifierAutomaticStopHA", dev)>>
        ELSE <<>>)
    \o (IF getattr_method(dev, "turn_on_display")
        THEN <<VeSyncBaseEntity_init("VeSyncHumidifierDisplayHA", dev)>> ELSE <<>>)
    \o (IF getattr_method(dev, "turn_on_child_lock")
        THEN <<VeSyncBaseEntity_init("VeSyncFanChildLockHA", dev)>> ELSE <<>>)

\* _setup_entities(devices, ...): the list handed to async_add_entities
RECURSIVE SetupEntities(_)
SetupEntities(devs) ==
    IF devs = <<>> THEN <<>>
    ELSE EntitiesFor(Head(devs)) \o SetupEntities(Tail(devs))

\* the switch platform is set up over the stored switches list
switch_async_setup_entry ==
    /\ pc = "classified"
    /\ entities' = entities \o SetupEntities(devices[VS_SWITCHES])
    /\ pc' = "platform_ready"
    /\ UNCHANGED <<manager, devices, state, coordinator, commands, outcome, history>>

\* the devices a switches list can hold: any device type with any capabilities
SetupKinds ==
    {Kind(IF t = "ESW15-USA" THEN "outlet" ELSE IF t = "ESWL01" THEN "switch"
          ELSE "humidifier",
          FALSE, "VeSyncHumid200300S", t, "TestDevice", ms) :
        t \in {"ESW15-USA", "ESWL01", "LUH-D301S-WEU"},
        ms \in SUBSET CapabilityMethods}

(***************************************************************************)
(* Adapter operations and the vendor commands they issue                   *)
(***************************************************************************)
\* no adapter operation has run yet
NoOperation == [op |-> "none"]

\* an awaited call of a vendor device method
Call(method, args) == [method |-> method, args |-> args]

\* the same call as the vendor library saw it, with the result it reported
VendorCall(dev, call, result) ==
    [device |-> dev, method |-> call.method, args |-> call.args, result |-> result]

VeSyncBaseSwitch_async_turn_on(self) == <<Call("turn_on", <<>>)>>

VeSyncDevice_async_turn_off(self) == <<Call("turn_off", <<>>)>>

VeSyncFanChildLockHA_async_turn_on(self) == <<Call("turn_on_child_lock", <<>>)>>

VeSyncFanChildLockHA_async_turn_off(self) == <<Call("turn_off_child_lock", <<>>)>>

VeSyncHumidifierDisplayHA_async_turn_on(self) == <<Call("turn_on_display", <<>>)>>

\* the display toggle switching the whole device off
VeSyncHumidifierDisplayHA_async_turn_off_Power(self) == <<Call("turn_off", <<>>)>>

VeSyncHumidifierDisplayHA_async_turn_off(self) == <<Call("turn_off_display", <<>>)>>

VeSyncHumidifierAutomaticStopHA_async_turn_on(self) ==
    <<Call("turn_on_automatic_stop", <<>>)>>

VeSyncHumidifierAutomaticStopHA_async_turn_off(self) ==
    <<Call("turn_off_automatic_stop", <<>>)>>

VeSyncHumidifierAutoOnHA_async_turn_on(self) == <<Call("set_auto_mode", <<>>)>>

\* the mist level set before the manual mode
VeSyncHumidifierAutoOnHA_async_turn_off_Reordered(self) ==
    <<Call("set_mist_level", <<PyInt(1)>>), Call("set_manual_mode", <<>>)>>

VeSyncHumidifierAutoOnHA_async_turn_off(self) ==
    <<Call("set_manual_mode", <<>>), Call("set_mist_level", <<PyInt(1)>>)>>

\* the outlet refreshed without its energy readings
VeSyncSwitchHA_async_update_NoEnergy(self) == <<Call("update", <<>>)>>

VeSyncSwitchHA_async_update(self) ==
    <<Call("update", <<>>), Call("update_energy", <<>>)>>

SwitchClasses == EntityClasses \ {"VeSyncBaseEntity"}

\* the calls async_turn_on awaits, by the class of the adapter
TurnOnCalls(self) ==
    CASE self.cls = "VeSyncFanChildLockHA" -> VeSyncFanChildLockHA_async_turn_on(self)
      [] self.cls = "VeSyncHumidifierDisplayHA" ->
            VeSyncHumidifierDisplayHA_async_turn_on(self)
      [] self.cls = "VeSyncHumidifierAutomaticStopHA" ->
            VeSyncHumidifierAutomaticStopHA_async_turn_on(self)
      [] self.cls = "VeSyncHumidifierAutoOnHA" ->
            VeSyncHumidifierAutoOnHA_async_turn_on(self)
      [] OTHER -> VeSyncBaseSwitch_async_turn_on(self)

\* the calls async_turn_off awaits, by the class of the adapter
TurnOffCalls(self) ==
    CASE self.cls = "VeSyncFanChildLockHA" -> VeSyncFanChildLockHA_async_turn_off(self)
      [] self.cls = "VeSyncHumidifierDisplayHA" ->
            VeSyncHumidifierDisplayHA_async_turn_off(self)
      [] self.cls = "VeSyncHumidifierAutomaticStopHA" ->
            VeSyncHumidifierAutomaticStopHA_async_turn_off(self)
      [] self.cls = "VeSyncHumidifierAutoOnHA" ->
            VeSyncHumidifierAutoOnHA_async_turn_off(self)
      [] OTHER -> VeSyncDevice_async_turn_off(self)

\* the calls are awaited in order; whatever each reports is dropped and the
\* operation returns normally
Awaited(self, op, calls) ==
    \E results \in [DOMAIN calls -> BOOLEAN] :
        /\ commands' = [i \in DOMAIN calls |->
                            VendorCall(self.device, calls[i], results[i])]
        /\ outcome' = [op |-> op, self |-> self, raised |-> "none"]

async_turn_on(self) ==
    /\ pc = "platform_ready"
    /\ self.cls \in SwitchClasses
    /\ Awaited(self, "async_turn_on", TurnOnCalls(self))
    /\ UNCHANGED <<manager, devices, pc, entities, state, coordinator, history>>

async_turn_off(self) ==
    /\ pc = "platform_ready"
    /\ self.cls \in SwitchClasses
    /\ Awaited(self, "async_turn_off", TurnOffCalls(self))
    /\ UNCHANGED <<manager, devices, pc, entities, state, coordinator, history>>

async_update(self) ==
    /\ pc = "platform_ready"
    /\ self.cls = "VeSyncSwitchHA"
    /\ Awaited(self, "async_update", VeSyncSwitchHA_async_update(self))
    /\ UNCHANGED <<manager, devices, pc, entities, state, coordinator, history>>

\* the host's humidifier modes, and strings that are none of them
MODE_AUTO == "auto"
MODE_NORMAL == "normal"
MODE_SLEEP == "sleep"
HostModeInputs == {MODE_AUTO, MODE_NORMAL, MODE_SLEEP, "turbo", "invalid"}

\* the vendor mode for a host mode, None for a string that is no host mode
_get_vs_mode(ha_mode) ==
    CASE ha_mode = MODE_AUTO -> PyStr("auto")
      [] ha_mode = MODE_NORMAL -> PyStr("manual")
      [] ha_mode = MODE_SLEEP -> PyStr("sleep")
      [] OTHER -> None

\* the mode handed to the vendor library without looking at it
set_mode_Unchecked(self, mode) ==
    /\ pc = "platform_ready"
    /\ self.cls = "VeSyncHumidifierHA"
    /\ \E success \in BOOLEAN :
        /\ commands' = <<VendorCall(self.device,
                            Call("set_humidity_mode", <<_get_vs_mode(mode)>>),
                            success)>>
        /\ outcome' = [op |-> "set_mode", self |-> self, mode |-> mode,
                       raised |-> IF success THEN "none" ELSE "ValueError"]
    /\ UNCHANGED <<manager, devices, pc, entities, state, coordinator, history>>

\* VeSyncHumidifierHA.set_mode
set_mode(self, mode) ==
    /\ pc = "platform_ready"
    /\ self.cls = "VeSyncHumidifierHA"
    /\ IF _get_vs_mode(mode) = None
       THEN /\ commands' = <<>>
            /\ outcome' = [op |-> "set_mode", self |-> self, mode |-> mode,
                           raised |-> "ValueError"]
       ELSE \E success \in BOOLEAN :
            /\ commands' = <<VendorCall(self.device,
                                Call("set_humidity_mode", <<_get_vs_mode(mode)>>),
                                success)>>
            /\ outcome' = [op |-> "set_mode", self |-> self, mode |-> mode,
                           raised |-> IF success THEN "none" ELSE "ValueError"]
    /\ UNCHANGED <<manager, devices, pc, entities, state, coordinator, history>>

\* the adapters of one device: its switches and, for a humidifier, its
\* humidifier adapter
CommandEntities(dev) ==
    EntitiesFor(dev)
    \o (IF dev.product_type = "humidifier"
        THEN <<VeSyncBaseEntity_init("VeSyncHumidifierHA", dev)>> ELSE <<>>)

(***************************************************************************)
(* The refresh-devices service and the platforms' discovery signals        *)
(***************************************************************************)
\* every platform compared through the switches list of the new mapping
NewDevices_SwitchesOnly(stored, dev_dict, platform) ==
    LET is_new(d) == ~InList(stored[platform], d)
    IN  SelectSeq(dev_dict[VS_SWITCHES], is_new)

\* _add_new_devices: the devices of the platform's new list that are not in
\* the platform's stored list
NewDevices(stored, dev_dict, platform) ==
    LET is_new(d) == ~InList(stored[platform], d)
    IN  SelectSeq(dev_dict[platform], is_new)

\* the vendor session finds one more device on the account
device_added(kind) ==
    /\ pc = "platform_ready"
    /\ Len(manager.devices) < MaxDev
    /\ manager' = [devices |->
                     Append(manager.devices,
                            Device(kind, "cid-" \o str(Len(manager.devices) + 1), None))]
    /\ UNCHANGED <<devices, pc, entities, state, coordinator, commands, outcome,
                   history>>

\* the update_devices service: the classifier runs again, each platform's new
\* devices are stored and sent on the platform's discovery signal, and the
\* switch platform's discover callback builds the adapters of those it is sent
update_devices ==
    /\ pc = "platform_ready"
    /\ LET dev_dict == ProcessDevices(manager)
           new == [k \in Platforms |-> NewDevices(devices, dev_dict, k)]
       IN  /\ devices' = [k \in Platforms |-> devices[k] \o new[k]]
           /\ entities' = entities \o SetupEntities(new[VS_SWITCHES])
           /\ outcome' = [op |-> "update_devices", manager |-> manager,
                          stored |-> devices, dev_dict |-> dev_dict,
                          dispatched |-> new]
    /\ UNCHANGED <<manager, pc, state, coordinator, commands, history>>

\* the kinds of device an account gains: a fan, a bulb, an outlet, a wall switch
RefreshKinds ==
    {k \in DeviceKinds :
        \/ k.product_type \in {"bulb", "outlet"}
        \/ k.product_type = "fan" /\ k.module \in RecognisedFanModules
        \/ k.product_type = "switch" /\ ~k.supports_dimmable}

(***************************************************************************)
(* The fan adapter: speed range and set-percentage                         *)
(***************************************************************************)
\* the level lists a fan declares
FanLevelLists == {<<>>, <<1>>, <<1, 2, 3>>, <<1, 2, 3, 4>>}

\* the percentages the host hands to async_set_percentage
Percentages == 0..100

\* max(levels)
MaxOf(levels) ==
    CHOOSE x \in {levels[i] : i \in DOMAIN levels} :
        \A i \in DOMAIN levels : levels[i] <= x

\* VeSyncFanHA._speed_range: from the declared levels, the legacy model's
\* range, or a single speed
speed_range(self) ==
    IF state[self.device].fan_levels # <<>>
    THEN <<1, MaxOf(state[self.device].fan_levels)>>
    ELSE IF self.device.device_type = "LV-PUR131S" THEN <<1, 3>>
    ELSE <<1, 1>>

\* the percentage mapped onto the range and cut down instead of rounded up
ceil_ranged_value_Floor(low_high_range, percentage) ==
    LET low == low_high_range[1]
        high == low_high_range[2]
    IN  (((high - low + 1) * percentage) \div 100) + (low - 1)

\* math.ceil(percentage_to_ranged_value(low_high_range, percentage)), where
\* percentage_to_ranged_value is (high - low + 1) * percentage / 100 + low - 1
ceil_ranged_value(low_high_range, percentage) ==
    LET low == low_high_range[1]
        high == low_high_range[2]
    IN  (((high - low + 1) * percentage + 99) \div 100) + (low - 1)

\* VeSyncFanHA.async_set_percentage: the calls it awaits
VeSyncFanHA_async_set_percentage(self, percentage) ==
    IF percentage = 0 THEN <<Call("turn_off", <<>>)>>
    ELSE (IF ~state[self.device].is_on THEN <<Call("turn_on", <<>>)>> ELSE <<>>)
         \o <<Call("set_manual_mode", <<>>),
              Call("set_fan_speed",
                   <<PyInt(ceil_ranged_value(speed_range(self), percentage))>>)>>

async_set_percentage(self, percentage) ==
    /\ pc = "platform_ready"
    /\ self.cls = "VeSyncFanHA"
    /\ LET calls == VeSyncFanHA_async_set_percentage(self, percentage)
       IN  \E reachable \in BOOLEAN :   \* the device answers, or none of the calls does
            commands' = [i \in DOMAIN calls |->
                            VendorCall(self.device, calls[i], reachable)]
    /\ outcome' = [op |-> "async_set_percentage", self |-> self,
                   percentage |-> percentage]
    /\ UNCHANGED <<manager, devices, pc, entities, state, coordinator, history>>

\* the devices the fan platform wraps: a fan and the legacy air purifier
FanKinds ==
    {k \in DeviceKinds :
        \/ k.product_type = "air_purifier"
        \/ k.product_type = "fan" /\ k.module \in RecognisedFanModules}

(***************************************************************************)
(* The dimmable light adapter: brightness conversions                      *)
(***************************************************************************)
\* round(a / b) for naturals a and b > 0: Python rounds a half to the even side
RoundHalfEven(a, b) ==
    LET q == a \div b
        r == a % b
    IN  IF 2 * r > b \/ (2 * r = b /\ q % 2 = 1) THEN q + 1 ELSE q

Clamp(lo, x, hi) == IF x < lo THEN lo ELSE IF x > hi THEN hi ELSE x

\* the percentage divided in whole numbers before it is scaled
_vesync_brightness_to_ha_IntDiv(vesync_brightness) ==
    IF ~isinstance_int(vesync_brightness) THEN None
    ELSE PyInt((Clamp(1, vesync_brightness.value, 100) \div 100) * 255)

\* the vendor's 0..100 brightness as the host's 0..255; None for a value that
\* is not a number
_vesync_brightness_to_ha(vesync_brightness) ==
    IF ~isinstance_int(vesync_brightness) THEN None
    ELSE PyInt(RoundHalfEven(
                 (IF vesync_brightness.value < 1 THEN 1 ELSE vesync_brightness.value)
                 * 255, 100))

\* the host's brightness as the vendor's 1..100 percentage
_ha_brightness_to_vesync(ha_brightness) ==
    Clamp(1, RoundHalfEven(Clamp(1, ha_brightness, 255) * 100, 255), 100)

\* the brightness values a vendor device reports
VendorBrightnesses == {PyInt(n) : n \in 0..100} \cup {PyStr("invalid")}

\* VeSyncDimmableLightHA.brightness: the host reads the light's brightness
read_brightness(self) ==
    /\ pc = "platform_ready"
    /\ self.cls = "VeSyncDimmableLightHA"
    /\ outcome' = [op |-> "brightness", self |-> self,
                   vesync |-> state[self.device].brightness,
                   value |-> _vesync_brightness_to_ha(state[self.device].brightness)]
    /\ commands' = <<>>
    /\ UNCHANGED <<manager, devices, pc, entities, state, coordinator, history>>

\* VeSyncDimmableLightHA.turn_on(brightness=...): the host sets the brightness
\* it has read; only set_brightness is called
turn_on_brightness(self) ==
    /\ pc = "platform_ready"
    /\ self.cls = "VeSyncDimmableLightHA"
    /\ outcome.op = "brightness"
    /\ outcome.value # None
    /\ \E result \in BOOLEAN :
        commands' = <<VendorCall(self.device,
                        Call("set_brightness",
                             <<PyInt(_ha_brightness_to_vesync(outcome.value.value))>>),
                        result)>>
    /\ outcome' = [op |-> "turn_on", self |-> self, vesync |-> outcome.vesync,
                   brightness |-> outcome.value]
    /\ UNCHANGED <<manager, devices, pc, entities, state, coordinator, history>>

(***************************************************************************)
(* Device state, the coordinator's polls, and what the adapters report     *)
(***************************************************************************)
\* DataUpdateCoordinator as constructed: no refresh has failed
NewCoordinator == [last_update_success |-> TRUE]

ConnectionStatuses == {PyStr("online"), PyStr("offline"), PyStr("unknown"), None}

\* the state objects the vendor library can hold for a device
DeviceStates(dev) ==
    {[connection_status |-> cs, device_status |-> PyStr("on")] :
        cs \in ConnectionStatuses}
    \cup (IF dev.product_type = "outlet"
          THEN {[connection_status |-> cs, device_status |-> PyStr("on"),
                 voltage |-> PyInt(120), weekly_history |-> PyInt(7),
                 monthly_history |-> PyInt(30), yearly_history |-> PyInt(365)] :
                  cs \in ConnectionStatuses}
          ELSE {})

\* hasattr(obj, attribute)
hasattr(obj, attribute) == attribute \in DOMAIN obj

\* every status but offline counts as available
available_NotOffline(self) ==
    state[self.device].connection_status # PyStr("offline")

available(self) == state[self.device].connection_status = PyStr("online")

\* the weekly total read from the monthly history
extra_state_attributes_Swapped(self) ==
    IF hasattr(state[self.device], "weekly_history")
    THEN [voltage |-> state[self.device].voltage,
          weekly_energy_total |-> state[self.device].monthly_history,
          monthly_energy_total |-> state[self.device].monthly_history,
          yearly_energy_total |-> state[self.device].yearly_history]
    ELSE <<>>

\* VeSyncSwitchHA.extra_state_attributes
extra_state_attributes(self) ==
    IF hasattr(state[self.device], "weekly_history")
    THEN [voltage |-> state[self.device].voltage,
          weekly_energy_total |-> state[self.device].weekly_history,
          monthly_energy_total |-> state[self.device].monthly_history,
          yearly_energy_total |-> state[self.device].yearly_history]
    ELSE <<>>

\* the states a refresh of the session can leave its devices in
SessionStates(mgr) ==
    {st \in [{mgr.devices[i] : i \in DOMAIN mgr.devices} ->
                UNION {DeviceStates(mgr.devices[i]) : i \in DOMAIN mgr.devices}] :
        \A i \in DOMAIN mgr.devices :
            st[mgr.devices[i]] \in DeviceStates(mgr.devices[i])}

\* a poll in which manager.update() returns: every device state is refreshed
poll_success ==
    /\ pc = "platform_ready"
    /\ state' \in SessionStates(manager)
    /\ coordinator' = [coordinator EXCEPT !.last_update_success = TRUE]
    /\ UNCHANGED <<manager, devices, pc, entities, commands, outcome, history>>

\* a poll in which manager.update() raises: the coordinator records the failure
poll_failure ==
    /\ pc = "platform_ready"
    /\ coordinator' = [coordinator EXCEPT !.last_update_success = FALSE]
    /\ UNCHANGED <<manager, devices, pc, entities, state, commands, outcome,
                   history>>

\* the sessions polled: outlets and humidifiers
PollKinds == {k \in DeviceKinds : k.product_type \in {"outlet", "humidifier"}}

(***************************************************************************)
(* Specification of the classifier                                         *)
(***************************************************************************)
Init ==
    /\ \E n \in 0..MaxDev : \E kinds \in [1..n -> DeviceKinds] :
            manager = Session(kinds)
    /\ devices = <<>>
    /\ pc = "setup"
    /\ entities = <<>>
    /\ state = <<>>
    /\ coordinator = NewCoordinator
    /\ commands = <<>>
    /\ outcome = NoOperation
    /\ history = <<>>

Next == async_process_devices

Spec == Init /\ [][Next]_vars

(***************************************************************************)
(* Specification of the adapters' identity                                 *)
(***************************************************************************)
InitEntity ==
    /\ manager = Session(<<>>)
    /\ devices = <<>>
    /\ pc = "setup"
    /\ entities = <<>>
    /\ state = <<>>
    /\ coordinator = NewCoordinator
    /\ commands = <<>>
    /\ outcome = NoOperation
    /\ history = <<>>

NextEntity == \E cls \in EntityClasses, dev \in EntityDevices : Construct(cls, dev)

SpecEntity == InitEntity /\ [][NextEntity]_vars

(***************************************************************************)
(* Specification of the switch platform's setup                            *)
(***************************************************************************)
InitSetup ==
    /\ manager = Session(<<>>)
    /\ \E n \in 0..MaxSetupDevs : \E kinds \in [1..n -> SetupKinds] :
            devices = [EmptyDevices EXCEPT ![VS_SWITCHES] = Session(kinds).devices]
    /\ pc = "classified"
    /\ entities = <<>>
    /\ state = <<>>
    /\ coordinator = NewCoordinator
    /\ commands = <<>>
    /\ outcome = NoOperation
    /\ history = <<>>

NextSetup == switch_async_setup_entry

SpecSetup == InitSetup /\ [][NextSetup]_vars

(***************************************************************************)
(* Specification of the polls: the platforms are set up over a session and *)
(* the coordinator refreshes it                                            *)
(***************************************************************************)
InitPoll ==
    /\ \E n \in 1..MaxPollDevs : \E kinds \in [1..n -> PollKinds] :
            manager = Session(kinds)
    /\ devices = ProcessDevices(manager)
    /\ entities = SetupEntities(devices[VS_SWITCHES])
    /\ pc = "platform_ready"
    /\ state \in SessionStates(manager)
    /\ coordinator = NewCoordinator
    /\ commands = <<>>
    /\ outcome = NoOperation
    /\ history = <<>>

NextPoll == poll_success \/ poll_failure

SpecPoll == InitPoll /\ [][NextPoll]_vars

(***************************************************************************)
(* Specification of the adapter operations on one device                   *)
(***************************************************************************)
InitCommand ==
    /\ \E kind \in SetupKinds : manager = Session(<<kind>>)
    /\ devices = ProcessDevices(manager)
    /\ entities = CommandEntities(manager.devices[1])
    /\ pc = "platform_ready"
    /\ state = <<>>
    /\ coordinator = NewCoordinator
    /\ commands = <<>>
    /\ outcome = NoOperation
    /\ history = <<>>

NextCommand ==
    \/ \E i \in DOMAIN entities : async_turn_on(entities[i])
    \/ \E i \in DOMAIN entities : async_turn_off(entities[i])
    \/ \E i \in DOMAIN entities : async_update(entities[i])
    \/ \E i \in DOMAIN entities : \E mode \in HostModeInputs :
            set_mode(entities[i], mode)

SpecCommand == InitCommand /\ [][NextCommand]_vars

(***************************************************************************)
(* Specification of the feature probe on one device object                 *)
(***************************************************************************)
InitFeature ==
    /\ \E device \in FeatureDevices : manager = [devices |-> <<device>>]
    /\ devices = <<>>
    /\ entities = <<>>
    /\ pc = "helpers"
    /\ state = <<>>
    /\ coordinator = NewCoordinator
    /\ commands = <<>>
    /\ outcome = NoOperation
    /\ history = <<>>

NextFeature ==
    \E attribute \in FeatureAttributes : call_has_feature(manager.devices[1], attribute)

SpecFeature == InitFeature /\ [][NextFeature]_vars

(***************************************************************************)
(* Specification of the setup pipeline: the session is classified and the  *)
(* switch platform is set up over the stored switches list                 *)
(***************************************************************************)
NextPipeline == async_process_devices \/ switch_async_setup_entry

SpecPipeline == Init /\ [][NextPipeline]_vars

(***************************************************************************)
(* Specification of the refresh-devices service after setup                *)
(***************************************************************************)
InitRefresh ==
    /\ \E n \in 0..MaxDev : \E kinds \in [1..n -> RefreshKinds] :
            manager = Session(kinds)
    /\ devices = ProcessDevices(manager)
    /\ entities = SetupEntities(devices[VS_SWITCHES])
    /\ pc = "platform_ready"
    /\ state = <<>>
    /\ coordinator = NewCoordinator
    /\ commands = <<>>
    /\ outcome = NoOperation
    /\ history = <<>>

NextRefresh ==
    \/ \E kind \in RefreshKinds : device_added(kind)
    \/ update_devices

SpecRefresh == InitRefresh /\ [][NextRefresh]_vars

(***************************************************************************)
(* Specification of the fan adapter's set-percentage on one device         *)
(***************************************************************************)
InitFan ==
    /\ \E kind \in FanKinds : manager = Session(<<kind>>)
    /\ devices = ProcessDevices(manager)
    /\ entities = <<VeSyncBaseEntity_init("VeSyncFanHA", manager.devices[1])>>
    /\ pc = "platform_ready"
    /\ \E on \in BOOLEAN, levels \in FanLevelLists :
            state = [d \in {manager.devices[1]} |->
                        [is_on |-> on, fan_levels |-> levels]]
    /\ coordinator = NewCoordinator
    /\ commands = <<>>
    /\ outcome = NoOperation
    /\ history = <<>>

NextFan ==
    \E i \in DOMAIN entities : \E percentage \in Percentages :
        async_set_percentage(entities[i], percentage)

SpecFan == InitFan /\ [][NextFan]_vars

(***************************************************************************)
(* Specification of the dimmable light's brightness on one bulb            *)
(***************************************************************************)
InitLight ==
    /\ \E kind \in {k \in DeviceKinds : k.product_type = "bulb"} :
            manager = Session(<<kind>>)
    /\ devices = ProcessDevices(manager)
    /\ entities = <<VeSyncBaseEntity_init("VeSyncDimmableLightHA", manager.devices[1])>>
    /\ pc = "platform_ready"
    /\ \E b \in VendorBrightnesses :
            state = [d \in {manager.devices[1]} |-> [brightness |-> b]]
    /\ coordinator = NewCoordinator
    /\ commands = <<>>
    /\ outcome = NoOperation
    /\ history = <<>>

NextLight ==
    \/ \E i \in DOMAIN entities : read_brightness(entities[i])
    \/ \E i \in DOMAIN entities : turn_on_brightness(entities[i])

SpecLight == InitLight /\ [][NextLight]_vars

(***************************************************************************)
(* Properties of the classifier (under Spec)                               *)
(***************************************************************************)
Classified == pc = "classified"

\* C1: for a manager whose only device is one outlet, the returned mapping
\* has that outlet in the switches list and in the sensors list and in none
\* of the other six lists.
C1_OneOutlet ==
    (Classified /\ Len(manager.devices) = 1 /\ Len(outlets(manager)) = 1)
        => LET outlet == manager.devices[1] IN
           /\ InList(devices[VS_SWITCHES], outlet)
           /\ InList(devices[VS_SENSORS], outlet)
           /\ \A k \in {VS_FANS, VS_LIGHTS, VS_HUMIDIFIERS, VS_NUMBERS,
                        VS_BINARY_SENSORS, VS_BUTTON} :
                ~InList(devices[k], outlet)

C1_Witness ==
    /\ Classified /\ Len(manager.devices) = 1
    /\ manager.devices[1].product_type = "outlet"
    /\ devices[VS_SWITCHES] = manager.devices

\* C2: for a manager with zero devices in every category, the returned
\* mapping has all eight platform keys, each mapped to the empty list.
C2_EmptyManager ==
    (Classified /\ manager.devices = <<>>)
        => /\ DOMAIN devices = {"switches", "fans", "lights", "sensors",
                                "humidifiers", "numbers", "binary_sensors",
                                "buttons"}
           /\ \A k \in DOMAIN devices : devices[k] = <<>>

C2_Witness ==
    /\ Classified /\ manager.devices = <<>>
    /\ fans(manager) = <<>> /\ air_fryers(manager) = <<>>
    /\ DOMAIN devices # {}

C4_Humidifiers ==
    Classified =>
        \A d \in SessionDevices :
            InList(humidifiers(manager), d)
                => /\ {VS_HUMIDIFIERS, VS_NUMBERS, VS_SWITCHES, VS_SENSORS,
                       VS_BINARY_SENSORS, VS_LIGHTS} \subseteq PlatformsOf(d)
                   /\ VS_FANS \notin PlatformsOf(d)

C4_Witness ==
    /\ Classified
    /\ \E d \in SessionDevices :
        InList(humidifiers(manager), d) /\ InList(devices[VS_HUMIDIFIERS], d)

\* C5: every wall switch is in exactly one list: the switches list when it
\* does not support dimming, the lights list when it does.
C5_WallSwitches ==
    Classified =>
        \A d \in SessionDevices :
            InList(switches(manager), d)
                => PlatformsOf(d) =
                     (IF d.supports_dimmable THEN {VS_LIGHTS} ELSE {VS_SWITCHES})

C5_Witness ==
    /\ Classified
    /\ \E d, e \in SessionDevices :
        /\ InList(switches(manager), d) /\ d.supports_dimmable
        /\ InList(switches(manager), e) /\ ~e.supports_dimmable
        /\ InList(devices[VS_LIGHTS], d) /\ InList(devices[VS_SWITCHES], e)

C7_Bulbs ==
    Classified =>
        \A d \in SessionDevices :
            InList(bulbs(manager), d) => PlatformsOf(d) = {VS_LIGHTS}

C7_Witness ==
    /\ Classified
    /\ \E d \in SessionDevices :
        InList(bulbs(manager), d) /\ InList(devices[VS_LIGHTS], d)

\* C8: a device of an unknown kind is skipped: a device of the fans
\* collection whose module is not a recognised fan or humidifier module is
\* in none of the fans, humidifiers and numbers lists, and a kitchen device
\* whose module is not a recognised air fryer is in neither the sensors nor
\* the buttons list.
C8_UnknownSkipped ==
    Classified =>
        \A d \in SessionDevices :
            /\ (InList(fans(manager), d) /\ d.module \notin RecognisedFanModules)
                => PlatformsOf(d) \cap {VS_FANS, VS_HUMIDIFIERS, VS_NUMBERS} = {}
            /\ (InList(air_fryers(manager), d)
                  /\ d.module \notin RecognisedKitchenModules)
                => PlatformsOf(d) \cap {VS_SENSORS, VS_BUTTON} = {}

(***************************************************************************)
(* Properties of the adapters' identity (under SpecEntity)                 *)
(***************************************************************************)
\* C9: the unique_id of every feature switch adapter (child lock, display,
\* automatic stop, auto mode) is the base id of its device followed by the
\* adapter's fixed suffix, and two adapters of one class constructed for the
\* same device have the same unique_id.
C9_FeatureUniqueId ==
    LET suffix == [c \in {"VeSyncFanChildLockHA", "VeSyncHumidifierDisplayHA",
                          "VeSyncHumidifierAutomaticStopHA",
                          "VeSyncHumidifierAutoOnHA"} |->
                     CASE c = "VeSyncFanChildLockHA" -> "-child-lock"
                       [] c = "VeSyncHumidifierDisplayHA" -> "-display"
                       [] c = "VeSyncHumidifierAutomaticStopHA" -> "-automatic-stop"
                       [] c = "VeSyncHumidifierAutoOnHA" -> "-auto-mode"]
    IN  /\ \A i \in DOMAIN entities :
            entities[i].cls \in DOMAIN suffix
                => unique_id(entities[i]) =
                     base_unique_id(entities[i]) \o suffix[entities[i].cls]
        /\ \A i, j \in DOMAIN entities :
            (entities[i].cls = entities[j].cls
               /\ entities[i].device = entities[j].device)
                => unique_id(entities[i]) = unique_id(entities[j])

C9_Witness ==
    /\ Len(entities) = 2
    /\ entities[1].cls = "VeSyncHumidifierDisplayHA"
    /\ entities[2] = entities[1]
    /\ entities[1].device.cid = "cid"
    /\ entities[1].device.sub_device_no = PyInt(1)
    /\ unique_id(entities[2]) = "cid1-display"

\* C10: the base id of an adapter is the device's cid followed by the
\* decimal sub-device index when that index is an integer, and the cid alone
\* when the device has no integer sub-device index.
C10_BaseUniqueId ==
    \A i \in DOMAIN entities :
        LET dev == entities[i].device
            decimal(n) == SubSeq("0123456789", n + 1, n + 1)
        IN  base_unique_id(entities[i]) =
                (IF dev.sub_device_no \in {PyInt(n) : n \in 0..9}
                 THEN dev.cid \o decimal(dev.sub_device_no.value)
                 ELSE dev.cid)

C10_Witness ==
    /\ Len(entities) = 2
    /\ entities[1].device.cid = "cid"
    /\ entities[1].device.sub_device_no = PyInt(0)
    /\ base_unique_id(entities[1]) = "cid0"
    /\ entities[2].device.cid = "cid1"
    /\ entities[2].device.sub_device_no = None
    /\ base_unique_id(entities[2]) = "cid1"

\* string a is b cut short: a proper prefix of b
ProperPrefix(a, b) == Len(a) < Len(b) /\ SubSeq(b, 1, Len(a)) = a

\* the two adapters wrap devices that differ in cid or in sub-device index
DevicesDiffer(e1, e2) ==
    \/ e1.device.cid # e2.device.cid
    \/ e1.device.sub_device_no # e2.device.sub_device_no

\* the two adapters have different base ids, different grouping identifiers
\* and, when they are of the same feature, different unique ids
IdsApart(e1, e2) ==
    /\ base_unique_id(e1) # base_unique_id(e2)
    /\ device_info(e1).identifiers # device_info(e2).identifiers
    /\ e1.cls = e2.cls => unique_id(e1) # unique_id(e2)

\* C29 (as stated): two devices that differ in cid or in sub-device index
\* never get the same base id, so adapters of the same feature built for two
\* different devices never share a unique_id or a grouping identifier.
C29_DistinctDevicesDistinctIds ==
    \A i, j \in DOMAIN entities :
        DevicesDiffer(entities[i], entities[j]) => IdsApart(entities[i], entities[j])

\* C29 (amended): two devices that differ in cid or in sub-device index, the
\* index being an integer or absent, and of which neither cid is the start of
\* the other's, never get the same base id, so adapters of the same feature
\* built for them never share a unique_id or a grouping identifier.
C29_DistinctIdsUnlessPrefix ==
    \A i, j \in DOMAIN entities :
        (/\ DevicesDiffer(entities[i], entities[j])
         /\ ~ProperPrefix(entities[i].device.cid, entities[j].device.cid)
         /\ ~ProperPrefix(entities[j].device.cid, entities[i].device.cid))
            => IdsApart(entities[i], entities[j])

C29_Witness ==
    /\ Len(entities) = 2
    /\ entities[1].cls = "VeSyncHumidifierDisplayHA"
    /\ entities[2].cls = "VeSyncHumidifierDisplayHA"
    /\ entities[1].device.cid = "cid1" /\ entities[1].device.sub_device_no = PyInt(1)
    /\ entities[2].device.cid = "cid2" /\ entities[2].device.sub_device_no = None
    /\ unique_id(entities[1]) = "cid11-display"
    /\ unique_id(entities[2]) = "cid2-display"

\* C11: all adapters that wrap the same device report the same device
\* grouping metadata: the identifier is the pair (domain, base id) without a
\* feature suffix, and model, manufacturer and firmware version are equal
\* across them, whatever the adapter's own unique_id is.
C11_DeviceInfoShared ==
    /\ \A i \in DOMAIN entities :
        LET dev == entities[i].device
            base == IF dev.sub_device_no = None THEN dev.cid
                    ELSE dev.cid \o SubSeq("0123456789", dev.sub_device_no.value + 1,
                                           dev.sub_device_no.value + 1)
        IN  /\ device_info(entities[i]).identifiers = {<<"vesync", base>>}
            /\ device_info(entities[i]).manufacturer = "VeSync"
            /\ device_info(entities[i]).model = dev.device_type
            /\ device_info(entities[i]).sw_version = dev.current_firm_version
    /\ \A i, j \in DOMAIN entities :
        entities[i].device = entities[j].device
            => device_info(entities[i]) = device_info(entities[j])

C11_Witness ==
    /\ Len(entities) = 2
    /\ entities[1].device = entities[2].device
    /\ entities[1].cls = "VeSyncSwitchHA"
    /\ entities[2].cls = "VeSyncFanChildLockHA"
    /\ unique_id(entities[1]) # unique_id(entities[2])
    /\ entities[1].device.sub_device_no = PyInt(1)
    /\ device_info(entities[2]).identifiers = {<<"vesync", "cid11">>}
    /\ device_info(entities[2]).sw_version = "1.0.1"

(***************************************************************************)
(* Properties of the switch platform's setup (under SpecSetup)             *)
(***************************************************************************)
PlatformReady == pc = "platform_ready"

\* the adapters built for device d
AdaptersOf(d) == {i \in DOMAIN entities : entities[i].device = d}

\* C12: for any single device, the adapters the switch-platform setup builds
\* for it (the primary outlet or wall-switch adapter and the auto-mode,
\* automatic-stop, display and child-lock adapters) have pairwise different
\* unique ids.
C12_DistinctUniqueIds ==
    PlatformReady =>
        \A i, j \in DOMAIN entities :
            (i # j /\ entities[i].device = entities[j].device)
                => unique_id(entities[i]) # unique_id(entities[j])

C12_Witness ==
    /\ PlatformReady
    /\ \E i \in DOMAIN devices[VS_SWITCHES] :
        /\ devices[VS_SWITCHES][i].device_type = "ESW15-USA"
        /\ Cardinality(AdaptersOf(devices[VS_SWITCHES][i])) = 5
        /\ Cardinality({unique_id(entities[k]) :
                          k \in AdaptersOf(devices[VS_SWITCHES][i])}) = 5

\* C16: for each device handed to the switch-platform setup, the setup builds
\* one adapter per capability method the device has, whatever its category;
\* the number of adapters built for it is (1 if its type is an outlet) +
\* (1 if its type is a wall switch) + the number of the four methods present,
\* so a device with none of them gets no adapter.
C16_AdaptersPerDevice ==
    PlatformReady =>
        \A i \in DOMAIN devices[VS_SWITCHES] :
            LET d == devices[VS_SWITCHES][i]
                built == {entities[k].cls : k \in AdaptersOf(d)}
                feature == [mth \in {"set_auto_mode", "turn_on_automatic_stop",
                                     "turn_on_display", "turn_on_child_lock"} |->
                    CASE mth = "set_auto_mode" -> "VeSyncHumidifierAutoOnHA"
                      [] mth = "turn_on_automatic_stop" ->
                            "VeSyncHumidifierAutomaticStopHA"
                      [] mth = "turn_on_display" -> "VeSyncHumidifierDisplayHA"
                      [] mth = "turn_on_child_lock" -> "VeSyncFanChildLockHA"]
            IN  /\ \A mth \in DOMAIN feature :
                    (mth \in d.methods) <=> (feature[mth] \in built)
                /\ Cardinality(AdaptersOf(d)) =
                      (IF DEV_TYPE_TO_HA_get(d.device_type) = "outlet" THEN 1 ELSE 0)
                    + (IF DEV_TYPE_TO_HA_get(d.device_type) = "switch" THEN 1 ELSE 0)
                    + Cardinality(d.methods \cap DOMAIN feature)

C16_Witness ==
    /\ PlatformReady
    /\ Len(devices[VS_SWITCHES]) = 2
    /\ devices[VS_SWITCHES][1].device_type = "LUH-D301S-WEU"
    /\ devices[VS_SWITCHES][1].methods = {}
    /\ AdaptersOf(devices[VS_SWITCHES][1]) = {}
    /\ devices[VS_SWITCHES][2].device_type = "ESW15-USA"
    /\ devices[VS_SWITCHES][2].methods = {"turn_on_display", "turn_on_child_lock"}
    /\ Len(entities) = 3

(***************************************************************************)
(* Properties of repeated classification passes (under Spec)               *)
(***************************************************************************)
\* C18: the classification pass completes without raising and returns the
\* mapping for every combination of devices in the vendor categories; it
\* issues no vendor command.
C18_NeverRaises ==
    /\ pc # "raised"
    /\ \A i \in DOMAIN history :
        /\ ~IsRaised(history[i].result)
        /\ DOMAIN history[i].result = Platforms
    /\ commands = <<>>

C18_Witness ==
    /\ Classified
    /\ Len(manager.devices) = 3
    /\ \E i, j, k \in DOMAIN manager.devices :
        /\ manager.devices[i].product_type = "fan"
        /\ manager.devices[i].module = "UnknownModule"
        /\ manager.devices[j].product_type = "switch"
        /\ manager.devices[k].product_type = "air_fryer"
    /\ history # <<>> /\ history[1].result = devices

\* C19: the routing table is built fresh on every pass: two passes over an
\* unchanged manager return equal mappings with equal list order, the second
\* carries no entries accumulated from the first, and a pass leaves the
\* manager's collections unchanged.
C19_BuiltFresh ==
    /\ \A i, j \in DOMAIN history :
        history[i].before = history[j].before
            => history[i].result = history[j].result
    /\ \A i \in DOMAIN history : history[i].after = history[i].before

C19_Witness ==
    /\ Len(history) = 2
    /\ history[1].before = history[2].before
    /\ history[2].result = devices
    /\ devices[VS_SWITCHES] # <<>> /\ devices[VS_LIGHTS] # <<>>

\* the number of devices in one vendor category of the session
CountOf(pt) == Len(OfType(manager, pt))

\* the number of entries of the returned mapping, all platform lists together
TotalEntries ==
    Len(devices[VS_SWITCHES]) + Len(devices[VS_FANS]) + Len(devices[VS_LIGHTS])
    + Len(devices[VS_SENSORS]) + Len(devices[VS_HUMIDIFIERS])
    + Len(devices[VS_NUMBERS]) + Len(devices[VS_BINARY_SENSORS])
    + Len(devices[VS_BUTTON])

\* no device object is listed twice in the session, so the seven category
\* collections are duplicate-free and pairwise disjoint
CollectionsDisjoint ==
    \A i, j \in DOMAIN manager.devices :
        i # j => manager.devices[i] # manager.devices[j]

C13_AvailableIffOnline ==
    \A i \in DOMAIN entities :
        LET cs == state[entities[i].device].connection_status
        IN  available(entities[i]) <=> (cs.type = "str" /\ cs.value = "online")

C13_Witness ==
    \E i, j \in DOMAIN entities :
        /\ state[entities[i].device].connection_status = PyStr("online")
        /\ available(entities[i])
        /\ state[entities[j].device].connection_status = None
        /\ ~available(entities[j])
        /\ coordinator.last_update_success

\* C14: after a poll of the shared coordinator fails, every adapter that
\* depends on the coordinator reports unavailable, and stays so until a later
\* poll succeeds.
C14_FailedPollUnavailable ==
    (~coordinator.last_update_success)
        => \A i \in DOMAIN entities : ~available(entities[i])

\* C15: the outlet switch adapter's extra_state_attributes is the empty
\* mapping when the device state carries no weekly-history attribute, and
\* otherwise the mapping with exactly the keys voltage, weekly_energy_total,
\* monthly_energy_total and yearly_energy_total, taken from the device's
\* voltage and weekly, monthly and yearly history.
C15_ExtraStateAttributes ==
    \A i \in DOMAIN entities :
        entities[i].cls = "VeSyncSwitchHA"
            => LET st == state[entities[i].device]
                   attrs == extra_state_attributes(entities[i])
               IN  IF "weekly_history" \in DOMAIN st
                   THEN /\ DOMAIN attrs = {"voltage", "weekly_energy_total",
                                           "monthly_energy_total",
                                           "yearly_energy_total"}
                        /\ attrs["voltage"] = st.voltage
                        /\ attrs["weekly_energy_total"] = st.weekly_history
                        /\ attrs["monthly_energy_total"] = st.monthly_history
                        /\ attrs["yearly_energy_total"] = st.yearly_history
                   ELSE DOMAIN attrs = {}

C15_Witness ==
    \E i, j \in DOMAIN entities :
        /\ entities[i].cls = "VeSyncSwitchHA" /\ entities[j].cls = "VeSyncSwitchHA"
        /\ ~hasattr(state[entities[i].device], "weekly_history")
        /\ extra_state_attributes(entities[i]) = <<>>
        /\ hasattr(state[entities[j].device], "weekly_history")
        /\ extra_state_attributes(entities[j]).weekly_energy_total = PyInt(7)

(***************************************************************************)
(* Properties of the adapter operations (under SpecCommand)                *)
(***************************************************************************)
\* C17: whenever a vendor command issued by a switch adapter's turn-on or
\* turn-off reports failure with a false result, the operation ends in a
\* rejected-operation error; it never completes as if the command succeeded.
C17_FailureRejected ==
    (/\ outcome.op \in {"async_turn_on", "async_turn_off"}
     /\ \E i \in DOMAIN commands : ~commands[i].result)
        => outcome.raised # "none"

\* C20: for a humidifier adapter, setting the mode to a string that is not one
\* of the recognised host modes ends in a rejected-operation error and issues
\* no vendor command.
C20_UnknownModeRejected ==
    (/\ outcome.op = "set_mode"
     /\ outcome.mode \notin {MODE_AUTO, MODE_NORMAL, MODE_SLEEP})
        => /\ outcome.raised = "ValueError"
           /\ commands = <<>>

C20_Witness ==
    /\ outcome.op = "set_mode"
    /\ outcome.mode = "turbo"
    /\ outcome.self.cls = "VeSyncHumidifierHA"
    /\ outcome.raised = "ValueError"
    /\ commands = <<>>

\* the methods called on the vendor device by the last operation, in order
MethodsCalled == [i \in DOMAIN commands |-> commands[i].method]

\* C23: turning the auto-mode switch off issues set_manual_mode and then
\* set_mist_level(1), in that order, each exactly once, and no set_auto_mode;
\* turning it on issues exactly one set_auto_mode and neither of the others.
C23_AutoModeCommands ==
    outcome.op \in {"async_turn_on", "async_turn_off"}
        => (outcome.self.cls = "VeSyncHumidifierAutoOnHA"
            => IF outcome.op = "async_turn_off"
               THEN /\ MethodsCalled = <<"set_manual_mode", "set_mist_level">>
                    /\ commands[1].args = <<>>
                    /\ commands[2].args = <<PyInt(1)>>
               ELSE /\ MethodsCalled = <<"set_auto_mode">>
                    /\ commands[1].args = <<>>)

C23_Witness ==
    /\ outcome.op = "async_turn_off"
    /\ outcome.self.cls = "VeSyncHumidifierAutoOnHA"
    /\ Len(commands) = 2
    /\ commands[1].method = "set_manual_mode"
    /\ commands[2].method = "set_mist_level"

\* C24: each feature toggle switch (child lock, display, automatic stop)
\* forwards turn-on to exactly one call of its own vendor on-command and
\* turn-off to exactly one call of its own off-command, and calls nothing
\* else: no main power turn_on or turn_off, no other feature's command.
C24_FeatureToggleFrame ==
    outcome.op \in {"async_turn_on", "async_turn_off"}
        => LET on == outcome.op = "async_turn_on"
               cls == outcome.self.cls
           IN  /\ cls = "VeSyncFanChildLockHA"
                    => MethodsCalled = IF on THEN <<"turn_on_child_lock">>
                                       ELSE <<"turn_off_child_lock">>
               /\ cls = "VeSyncHumidifierDisplayHA"
                    => MethodsCalled = IF on THEN <<"turn_on_display">>
                                       ELSE <<"turn_off_display">>
               /\ cls = "VeSyncHumidifierAutomaticStopHA"
                    => MethodsCalled = IF on THEN <<"turn_on_automatic_stop">>
                                       ELSE <<"turn_off_automatic_stop">>

C24_Witness ==
    /\ outcome.op = "async_turn_off"
    /\ outcome.self.cls = "VeSyncHumidifierDisplayHA"
    /\ MethodsCalled = <<"turn_off_display">>
    /\ Len(entities) >= 4

\* C25: an update of the outlet switch adapter calls the device's update and
\* then its update_energy, each exactly once, and issues no power command.
C25_OutletUpdate ==
    outcome.op = "async_update"
        => /\ outcome.self.cls = "VeSyncSwitchHA"
           /\ MethodsCalled = <<"update", "update_energy">>
           /\ \A i \in DOMAIN commands :
                /\ commands[i].device = outcome.self.device
                /\ commands[i].method \notin {"turn_on", "turn_off"}

C25_Witness ==
    /\ outcome.op = "async_update"
    /\ outcome.self.device.product_type = "outlet"
    /\ Len(commands) = 2
    /\ commands[2].method = "update_energy"

(***************************************************************************)
(* Properties of the feature probe (under SpecFeature)                     *)
(***************************************************************************)
\* C27: has_feature returns true exactly when the named attribute is present
\* in the device's state container with a value other than None: zero and the
\* empty string count as present; a missing attribute, a None value, or a
\* device that has no container at all gives false.
C27_HasFeature ==
    outcome.op = "has_feature"
        => LET dev == outcome.device
               attr == outcome.attribute
           IN  /\ outcome.result
                    <=> /\ "state" \in DOMAIN dev
                        /\ dev.state # None
                        /\ attr \in DOMAIN dev.state
                        /\ dev.state[attr] # None
               /\ ("state" \notin DOMAIN dev) => ~outcome.result
               /\ ("state" \in DOMAIN dev /\ dev.state # None
                    /\ attr \in DOMAIN dev.state
                    /\ dev.state[attr] \in {PyInt(0), PyStr("")})
                    => outcome.result

C27_Witness ==
    /\ outcome.op = "has_feature"
    /\ outcome.attribute = "mist_level"
    /\ "state" \in DOMAIN outcome.device
    /\ outcome.device.state # None
    /\ DOMAIN outcome.device.state = {"humidity", "mist_level"}
    /\ outcome.device.state["mist_level"] = PyInt(0)
    /\ outcome.device.state["humidity"] = None
    /\ outcome.result

(***************************************************************************)
(* Properties of the setup pipeline (under SpecPipeline)                   *)
(***************************************************************************)
\* the on/off switch adapters built for device d
LightSwitchesOf(d) ==
    {i \in DOMAIN entities :
        entities[i].cls = "VeSyncLightSwitch" /\ entities[i].device = d}

\* C30: after a classification pass followed by the switch platform's setup
\* over the resulting switches list, a wall switch that supports dimming has
\* no on/off switch adapter (VeSyncLightSwitch) and a wall switch that does
\* not support dimming has exactly one.
C30_DimmerHasNoSwitch ==
    PlatformReady
        => \A d \in SessionDevices :
            d.product_type = "switch"
                => Cardinality(LightSwitchesOf(d))
                     = (IF d.supports_dimmable THEN 0 ELSE 1)

C30_Witness ==
    /\ PlatformReady
    /\ \E d1, d2 \in SessionDevices :
        /\ d1.product_type = "switch" /\ d1.supports_dimmable
        /\ LightSwitchesOf(d1) = {}
        /\ InList(devices[VS_LIGHTS], d1)
        /\ d2.product_type = "switch" /\ ~d2.supports_dimmable
        /\ Cardinality(LightSwitchesOf(d2)) = 1

(***************************************************************************)
(* Properties of the refresh-devices service (under SpecRefresh)           *)
(***************************************************************************)
\* C26: a refresh-devices call after setup runs the classifier again and, for
\* each platform, dispatches to that platform's discovery signal the devices
\* that are in the platform's new list and were not in its stored list; the
\* comparison uses the platform's own list, so a new device is dispatched to
\* its platform even when the switches list has no new device; and the switch
\* platform's discovery callback builds adapters only for the devices
\* dispatched to it.
C26_RefreshDispatch ==
    /\ outcome.op = "update_devices"
        => /\ outcome.dev_dict = ProcessDevices(outcome.manager)
           /\ \A k \in Platforms :
                /\ \A d \in {outcome.manager.devices[i] :
                                i \in DOMAIN outcome.manager.devices} :
                      InList(outcome.dispatched[k], d)
                        <=> (InList(outcome.dev_dict[k], d)
                             /\ ~InList(outcome.stored[k], d))
                /\ \A i, j \in DOMAIN outcome.dispatched[k] :
                      i # j => outcome.dispatched[k][i] # outcome.dispatched[k][j]
    /\ PlatformReady => entities = SetupEntities(devices[VS_SWITCHES])

C26_Witness ==
    /\ outcome.op = "update_devices"
    /\ outcome.stored[VS_SWITCHES] # <<>>
    /\ outcome.dispatched[VS_SWITCHES] = <<>>
    /\ Len(outcome.dispatched[VS_LIGHTS]) = 1
    /\ outcome.dispatched[VS_LIGHTS][1].product_type = "bulb"
    /\ Len(entities) = Len(outcome.stored[VS_SWITCHES])

(***************************************************************************)
(* Properties of the fan adapter (under SpecFan)                           *)
(***************************************************************************)
\* the calls of one vendor method made by the last operation
CallsOf(method) == {i \in DOMAIN commands : commands[i].method = method}

\* C21: for a fan adapter, async_set_percentage(0) issues a power-off command
\* and no speed-set command; for a percentage above 0 it issues a speed-set
\* command whose level is the percentage mapped onto the device's level range
\* and rounded up, so with declared levels [1,2,3] a percentage of 100 sets
\* level 3.
C21_SetPercentage ==
    outcome.op = "async_set_percentage"
        => LET range == speed_range(outcome.self)
               n == range[2] - range[1] + 1
               p == outcome.percentage
           IN  IF p = 0
               THEN /\ Cardinality(CallsOf("turn_off")) = 1
                    /\ CallsOf("set_fan_speed") = {}
               ELSE /\ CallsOf("turn_off") = {}
                    /\ Cardinality(CallsOf("set_fan_speed")) = 1
                    /\ \A i \in CallsOf("set_fan_speed") :
                        LET level == commands[i].args[1].value
                        IN  /\ Len(commands[i].args) = 1
                            /\ (level - range[1] + 1) * 100 >= n * p
                            /\ (level - range[1]) * 100 < n * p
                            /\ (state[outcome.self.device].fan_levels = <<1, 2, 3>>
                                /\ p = 100) => level = 3

C21_Witness ==
    /\ outcome.op = "async_set_percentage"
    /\ outcome.percentage = 50
    /\ state[outcome.self.device].fan_levels = <<1, 2, 3>>
    /\ \E i \in DOMAIN commands :
        commands[i].method = "set_fan_speed" /\ commands[i].args = <<PyInt(2)>>

(***************************************************************************)
(* Properties of the brightness conversions (under SpecLight)              *)
(***************************************************************************)
\* C22: for every vendor brightness percentage p in 1..100, converting p to
\* the host's 0..255 brightness and converting the result back to a vendor
\* percentage yields a value that differs from p by at most 1.
C22_BrightnessRoundTrip ==
    (/\ outcome.op = "turn_on"
     /\ outcome.vesync \in {PyInt(n) : n \in 1..100})
        => LET p == outcome.vesync.value
               back == commands[1].args[1].value
           IN  /\ outcome.brightness.value \in 0..255
               /\ back - p <= 1
               /\ p - back <= 1

C22_Witness ==
    /\ outcome.op = "turn_on"
    /\ outcome.vesync = PyInt(30)
    /\ outcome.brightness = PyInt(76)
    /\ commands[1].method = "set_brightness"
    /\ commands[1].args = <<PyInt(30)>>

====
